---- MODULE Spec2Model ----
(***************************************************************************)
(* Task orchestration engine of Prompt2Mesh: the LangGraph workflows of    *)
(* ArtisanAgent (text goal) and SculptorAgent (image goal), and the run()  *)
(* method that drives each of them.                                        *)
(***************************************************************************)
EXTENDS Integers, Sequences, FiniteSets, TLC

(***************************************************************************)
(* Bounds of the model                                                     *)
(***************************************************************************)
MaxLines == 7
MaxCalls == 2
MaxRetryLimit == 5
MaxRuns == 2
MaxKeyChars == 4
MaxTasks == 2
MaxNumber == 120

(***************************************************************************)
(* Program constants                                                       *)
(***************************************************************************)
DefaultRefinementSteps == 2
DefaultQualityScore == 5
FoundationalStepLimit == 5
CriticalStepCutoff == 5
CriticalThreshold == 7
NormalThreshold == 6
ArtisanFallbackLen == 5
SculptorFallbackLen == 6
TemplateObjectLimit == 3
ObjectInspectLimit == 5
SculptorDefaultScore == 50
SculptorCompleteScore == 75
SculptorMaxReplanning == 2
ScoreWindow == 3
ArtisanMaxRetries == 3
ArtisanBaseWait == 5
SculptorMaxRetries == 5
SculptorBaseWait == 15

None == "None"
NotAnInt == -100
Unset == -1
NoRating == -1
NoShot == -1
NoDesc == -1
FinalStep == 0
NoResult ==
    [kind |-> "none", success |-> FALSE, steps_executed |-> 0, total_steps |-> 0,
     partial_completion |-> FALSE, can_resume |-> FALSE,
     recursion_limit_reached |-> FALSE, error |-> None]
NoScene == [scene_info |-> [has_objects |-> FALSE, json_ok |-> FALSE, num_objects |-> 0],
            objects_present |-> FALSE]
NoKey == [kind |-> "none", value |-> 0]
NoSession == [uuid |-> NoKey, session_id |-> NoKey, runs |-> <<>>]
Cancelled == "Task cancelled by user"
StepFailed == "Step failed"
VisionFailed == "Vision analysis failed"

VARIABLES
    agent,                  \* "artisan" (ArtisanAgent) or "sculptor" (SculptorAgent)
    owns_mcp,               \* SculptorAgent.owns_mcp
    cancel_requested,       \* what cancellation_check() returns
    env_refinement_steps,   \* REFINEMENT_STEPS of the environment
    node,                   \* the node the graph runs next
    run_status,             \* "running", "returned" or "raised"
    result,                 \* what run() returned
    stream_pending,         \* SculptorAgent.run: a state update is being streamed
    planning_steps,
    current_step,
    is_complete,
    critical_error,
    completed_steps,
    is_resuming,
    initial_scene_state,
    vision_feedback,        \* the last entry of state["vision_feedback"]; <<>>: none, or ""
    refinement_attempts,
    max_refinements_per_step,
    needs_refinement,
    enable_refinement,
    quality_scores,         \* sculptor: the entries _assess_progress_node reads
    needs_replanning,
    replanning_count,
    step_io,                \* the external calls made by the node that ran last
    all_scores_pass,        \* artisan: no entry of state["quality_scores"] is a failed one
    retry,                  \* one call of invoke_with_retry
    session,                \* the session keys two runs computed
    artisan_tasks,          \* backend: the task table, in order of submission
    use_deterministic_session,  \* run(): the caller's resume flag
    last_screenshot,        \* sculptor: NNN of the newest step_NNN.png in screenshot_dir
    replans_taken           \* sculptor: how often the "replan" edge was followed

vars == <<agent, owns_mcp, cancel_requested, env_refinement_steps,
          node, run_status, result, stream_pending,
          planning_steps, current_step, is_complete, critical_error, completed_steps,
          is_resuming, initial_scene_state, vision_feedback, refinement_attempts,
          max_refinements_per_step, needs_refinement, enable_refinement,
          quality_scores, needs_replanning, replanning_count, step_io,
          all_scores_pass, retry, session, artisan_tasks, use_deterministic_session,
          last_screenshot, replans_taken>>

\* What the nodes of the graphs never change.
configVars == <<agent, owns_mcp, env_refinement_steps, enable_refinement, retry, session,
                artisan_tasks, use_deterministic_session>>

Max(a, b) == IF a >= b THEN a ELSE b
Min(a, b) == IF a <= b THEN a ELSE b

RECURSIVE SeqMax(_)
SeqMax(s) == IF Len(s) = 1 THEN s[1] ELSE Max(s[1], SeqMax(Tail(s)))

RECURSIVE SeqSum(_)
SeqSum(s) == IF s = <<>> THEN 0 ELSE s[1] + SeqSum(Tail(s))

Prefix(s, n) == SubSeq(s, 1, Min(n, Len(s)))

LastN(s, n) == SubSeq(s, Max(1, Len(s) - n + 1), Len(s))

(***************************************************************************)
(* Inputs: what the collaborators can answer                               *)
(***************************************************************************)
\* A planner response: some prose lines, then n numbered lines.
LineKinds == {"numbered", "prose"}

PlanSizes == {0, 2, MaxLines}

PlannerResponses ==
    { [i \in 1..(a + n) |-> IF i <= a THEN "prose" ELSE "numbered"] :
        a \in 0..1, n \in PlanSizes }

\* The numbers found in the completed-step detection response.
DetectionResponses ==
    { <<>>, <<0>>, <<1>>, <<2, 1>>, <<1, 2, 3>>, <<MaxLines>>, <<MaxLines + 1>> }

\* get_scene_info: does the text contain "objects", do json.loads and the
\* lookup of its "objects" list succeed, how many objects does the text list.
SceneInfos ==
    { [has_objects |-> FALSE, json_ok |-> FALSE, num_objects |-> 0],
      [has_objects |-> TRUE, json_ok |-> FALSE, num_objects |-> TemplateObjectLimit - 1] }
    \cup { [has_objects |-> TRUE, json_ok |-> TRUE, num_objects |-> n] :
             n \in {TemplateObjectLimit, TemplateObjectLimit + 1} }

ToolNames == {"execute_blender_code", "get_object_info"}

\* What a tool call returns: success flag and the phrases its text contains.
ToolOutcomes ==
    { [success |-> TRUE, text |-> {}],
      [success |-> FALSE, text |-> {"error"}],
      [success |-> TRUE, text |-> {"not found"}],
      [success |-> TRUE, text |-> {"no attribute"}] }

ToolCalls == [name : ToolNames, outcome : ToolOutcomes]

ToolCallSeqs == UNION { [1..n -> ToolCalls] : n \in 0..MaxCalls }

\* Vision feedback: the rating written in the text (None: no rating) and the
\* phrases the text contains.
Ratings == {NoRating, NormalThreshold, CriticalThreshold}

Feedbacks ==
    [rating : Ratings, phrases : { {}, {"hidden"} }]
    \cup [rating : {CriticalThreshold}, phrases : { {"behind"}, {"behind", "object"} }]

\* REFINEMENT_STEPS: not set to an integer, or to a negative one.
EnvRefinementSteps == {NotAnInt, -1}

\* Sculptor: the first percentage in the comparison text (None: no percentage).
Percentages == {NoRating, 40, 80}

(***************************************************************************)
(* ArtisanAgent: pure parts of the nodes                                   *)
(***************************************************************************)
Steps(n) == [i \in 1..n |-> i]

\* _plan_node: the numbered lines are the steps; no step gives the fallback plan.
ParsedSteps(response) == SelectSeq(response, LAMBDA l : l = "numbered")

ArtisanPlan(response) ==
    IF Len(ParsedSteps(response)) = 0
    THEN Steps(ArtisanFallbackLen)
    ELSE Steps(Len(ParsedSteps(response)))

\* _plan_node: max_skip = max(1, int(len(steps) * 0.3))
MaxSkip(n) == Max(1, (3 * n) \div 10)

\* _plan_node: the 0-based indices of the reported numbers that are in range,
\* cut to the first max_skip of them.
ValidIndices(numbers, n) ==
    LET idx == [i \in 1..Len(numbers) |-> numbers[i] - 1]
    IN  SelectSeq(idx, LAMBDA k : 0 <= k /\ k < n)

CompletedIndices(numbers, n) ==
    LET valid == ValidIndices(numbers, n)
    IN  IF Len(valid) > MaxSkip(n) THEN Prefix(valid, MaxSkip(n)) ELSE valid

ResumeStep(completed_indices) ==
    IF completed_indices = <<>> THEN 0 ELSE SeqMax(completed_indices) + 1

\* _execute_step_node: current_idx >= len(state["planning_steps"])
StepsExhaustedStrict(step, steps) == step > Len(steps)

StepsExhausted(step, steps) == step >= Len(steps)

\* _execute_step_node: state["current_step"] += 1
NextStepSkipping(step) == step + 2

NextStep(step) == step + 1

\* _execute_step_node: error classification of one tool result.
HasError(outcome) ==
    \/ ~outcome.success
    \/ "error" \in outcome.text
    \/ "failed" \in outcome.text
    \/ "not found" \in outcome.text

FatalPatterns == {"not found", "no attribute", "keyerror"}

IsCriticalBelowLimit(call, step) ==
    /\ HasError(call.outcome)
    /\ call.name = "execute_blender_code"
    /\ step < FoundationalStepLimit
    /\ call.outcome.text \cap FatalPatterns # {}

IsCriticalAnyError(call, step) == HasError(call.outcome)

IsCritical(call, step) ==
    /\ HasError(call.outcome)
    /\ call.name = "execute_blender_code"
    /\ step <= FoundationalStepLimit
    /\ call.outcome.text \cap FatalPatterns # {}

\* _execute_step_node: the tool-call loop returns at the first critical call.
RECURSIVE CallsSent(_, _, _)
CallsSent(calls, step, k) ==
    IF k > Len(calls) THEN Len(calls)
    ELSE IF IsCritical(calls[k], step) THEN k
    ELSE CallsSent(calls, step, k + 1)

HaltsStep(calls, step) == \E k \in 1..Len(calls) : IsCritical(calls[k], step)

\* _capture_feedback_node, _refine_step_node: the description put into the
\* prompt; FinalStep stands for the text "Final step".
CurrentStepDesc(steps, step) ==
    IF step < Len(steps) THEN steps[step + 1] ELSE FinalStep

\* _assess_quality_node
QualityScore(feedback) ==
    IF feedback.rating = NoRating THEN DefaultQualityScore ELSE feedback.rating

OcclusionDetectedNoHidden(feedback) ==
    \/ "occluded" \in feedback.phrases
    \/ "obscured" \in feedback.phrases
    \/ "blocked" \in feedback.phrases
    \/ "overshadow" \in feedback.phrases
    \/ ("behind" \in feedback.phrases /\ "object" \in feedback.phrases)
    \/ "not visible" \in feedback.phrases
    \/ "can't see" \in feedback.phrases
    \/ "cannot see" \in feedback.phrases

OcclusionDetected(feedback) ==
    \/ "hidden" \in feedback.phrases
    \/ "occluded" \in feedback.phrases
    \/ "obscured" \in feedback.phrases
    \/ "blocked" \in feedback.phrases
    \/ "overshadow" \in feedback.phrases
    \/ ("behind" \in feedback.phrases /\ "object" \in feedback.phrases)
    \/ "not visible" \in feedback.phrases
    \/ "can't see" \in feedback.phrases
    \/ "cannot see" \in feedback.phrases

RefinementThreshold(step) ==
    IF step < CriticalStepCutoff THEN CriticalThreshold ELSE NormalThreshold

NeedsRefinementAtThreshold(feedback, step, attempts, max_attempts) ==
    IF attempts >= max_attempts THEN FALSE
    ELSE QualityScore(feedback) <= RefinementThreshold(step) \/ OcclusionDetected(feedback)

NeedsRefinementEarlyCap(feedback, step, attempts, max_attempts) ==
    IF attempts + 1 >= max_attempts THEN FALSE
    ELSE QualityScore(feedback) < RefinementThreshold(step) \/ OcclusionDetected(feedback)

NeedsRefinementNoCap(feedback, step, attempts, max_attempts) ==
    QualityScore(feedback) < RefinementThreshold(step) \/ OcclusionDetected(feedback)

NeedsRefinement(feedback, step, attempts, max_attempts) ==
    IF attempts >= max_attempts THEN FALSE
    ELSE QualityScore(feedback) < RefinementThreshold(step) \/ OcclusionDetected(feedback)

\* _assess_quality_node: the entry appended to quality_scores has a score at
\* or above the threshold applied and a feedback without occlusion phrase.
ScorePasses(feedback, step) ==
    QualityScore(feedback) >= RefinementThreshold(step) /\ ~OcclusionDetected(feedback)

\* _assess_quality_node: max(0, int(REFINEMENT_STEPS)), 2 when it is no integer
LoadMaxRefinements(raw) ==
    IF raw = NotAnInt THEN DefaultRefinementSteps ELSE Max(0, raw)

\* _should_refine
ShouldRefine(enabled, needs) ==
    IF ~enabled THEN "continue" ELSE IF needs THEN "refine" ELSE "continue"

\* _execute_step_node: a result that is an error matching a fatal pattern.
IsFatalError(outcome) == HasError(outcome) /\ outcome.text \cap FatalPatterns # {}

\* for tool_call in response.tool_calls: the k-th invocation sent is the k-th
\* the reasoning model returned.
DispatchedReversed(requested, sent) == [k \in 1..sent |-> requested + 1 - k]

Dispatched(requested, sent) == [k \in 1..sent |-> k]

\* The external calls of one node: reasoning calls made, tool invocations
\* requested by the reasoning model, invocations sent, for each invocation
\* sent its position in the model's response, the tool whose result was a
\* fatal error (None: no fatal error) and whether its result was an error, the
\* entries the node appended to state["execution_errors"], and the records
\* it appended to state["tool_results"], whether the reasoning call raised,
\* the tool calls the node issued to the controlled application, the
\* screenshot file it wrote and counted in screenshot_count (NoShot: none),
\* the entries it appended to state["quality_scores"], and whether its
\* screenshot tool call reported success, and the step description it put
\* into a prompt.
StepIO(llm, calls, step) ==
    LET sent == CallsSent(calls, step, 1)
        order == Dispatched(Len(calls), sent)
    IN  [llm |-> llm, requested |-> Len(calls), sent |-> sent,
         order |-> order,
         fatal |-> [k \in 1..sent |->
                      IF IsFatalError(calls[order[k]].outcome)
                      THEN calls[order[k]].name ELSE None],
         errors |-> [k \in 1..sent |-> HasError(calls[order[k]].outcome)],
         logged |-> Cardinality({k \in 1..sent : HasError(calls[order[k]].outcome)}),
         recorded |-> IF HaltsStep(calls, step) THEN 0 ELSE Len(calls),
         llm_failed |-> FALSE, rpc |-> sent, saved |-> NoShot, scored |-> 0,
         snap_ok |-> FALSE, described |-> NoDesc]

NoIO == [llm |-> 0, requested |-> 0, sent |-> 0, order |-> <<>>, fatal |-> <<>>,
         errors |-> <<>>, logged |-> 0, recorded |-> 0, llm_failed |-> FALSE,
         rpc |-> 0, saved |-> NoShot, scored |-> 0,
         snap_ok |-> FALSE, described |-> NoDesc]

\* A node that calls n tools of its own choice.
RpcIO(n) == [NoIO EXCEPT !.rpc = n]

SentIO(llm, n) ==
    [llm |-> llm, requested |-> n, sent |-> n, order |-> Dispatched(n, n),
     fatal |-> [k \in 1..n |-> None], errors |-> [k \in 1..n |-> FALSE],
     logged |-> 0, recorded |-> 0, llm_failed |-> FALSE, rpc |-> n, saved |-> NoShot,
     scored |-> 0, snap_ok |-> FALSE, described |-> NoDesc]

\* The reasoning call of the node raised: no invocation is sent.
FailedIO == [SentIO(1, 0) EXCEPT !.llm_failed = TRUE]

\* SculptorAgent._execute_step_node: one record per invocation; a single
\* record when the model returned no invocation.
SculptorStepIO(n) == [SentIO(1, n) EXCEPT !.recorded = IF n = 0 THEN 1 ELSE n]

\* SculptorAgent._execute_step_node: the except branch appends one "error"
\* record.
SculptorFailedIO == [FailedIO EXCEPT !.recorded = 1]

(***************************************************************************)
(* invoke_with_retry: the retry loop around a model call                   *)
(***************************************************************************)
\* What one model call does: it returns a response, or raises an error whose
\* text contains "rate_limit", contains "429" only, contains "overloaded"
\* only, or contains none of them.
CallOutcomes == {"ok", "rate_limit", "429", "overloaded", "other"}

\* "rate_limit" in str(e).lower(), and for SculptorAgent also "429"
IsRateLimitAnyError(impl, outcome) == outcome # "ok"

IsRateLimit(impl, outcome) ==
    IF impl = "artisan" THEN outcome = "rate_limit"
    ELSE outcome \in {"rate_limit", "429"}

\* The default arguments of the helper of each agent.
DefaultMaxRetries(impl) ==
    IF impl = "artisan" THEN ArtisanMaxRetries ELSE SculptorMaxRetries

DefaultBaseWait(impl) ==
    IF impl = "artisan" THEN ArtisanBaseWait ELSE SculptorBaseWait

\* wait_time = base_wait * (2 ** attempt)
WaitTime(base_wait, attempt) == base_wait * (2 ^ attempt)

NoRetry ==
    [status |-> "idle", sync |-> FALSE, max_retries |-> 0, base_wait |-> 0,
     attempt |-> 0, calls |-> 0, waits |-> <<>>, last |-> None]

\* The helper is entered: max_retries is the default or the caller's value.
RetryStart(impl, sync, max_retries) ==
    [status |-> "loop", sync |-> sync, max_retries |-> max_retries,
     base_wait |-> DefaultBaseWait(impl),
     attempt |-> 0, calls |-> 0, waits |-> <<>>, last |-> None]

(***************************************************************************)
(* Initial state: run() builds initial_state and starts the graph          *)
(***************************************************************************)
GraphInit ==
    /\ agent \in {"artisan", "sculptor"}
    /\ owns_mcp \in (IF agent = "artisan" THEN {TRUE} ELSE BOOLEAN)
    /\ cancel_requested = FALSE
    /\ env_refinement_steps \in
         (IF agent = "artisan" THEN EnvRefinementSteps ELSE {NotAnInt})
    /\ enable_refinement \in (IF agent = "artisan" THEN BOOLEAN ELSE {TRUE})
    /\ node = IF agent = "artisan" THEN "analyze_scene" ELSE "analyze_input_image"
    /\ run_status = "running"
    /\ result = NoResult
    /\ stream_pending = FALSE
    /\ planning_steps = <<>>
    /\ current_step = 0
    /\ is_complete = FALSE
    /\ critical_error = None
    /\ completed_steps = <<>>
    /\ is_resuming = FALSE
    /\ initial_scene_state = NoScene
    /\ vision_feedback = <<>>
    /\ refinement_attempts = 0
    /\ max_refinements_per_step = Unset
    /\ needs_refinement = FALSE
    /\ quality_scores = <<>>
    /\ needs_replanning = FALSE
    /\ replanning_count = 0
    /\ step_io = NoIO
    /\ all_scores_pass = TRUE
    /\ use_deterministic_session \in (IF agent = "artisan" THEN BOOLEAN ELSE {TRUE})
    /\ last_screenshot = NoShot
    /\ replans_taken = 0

Init ==
    /\ GraphInit
    /\ retry = NoRetry
    /\ session = NoSession
    /\ artisan_tasks = <<>>

\* run() left by an exception it does not catch.
Raised(exception) == [NoResult EXCEPT !.kind = "raised", !.error = exception]

\* The graph runs the node that is scheduled next.
CanStep(a, n) ==
    /\ agent = a
    /\ run_status = "running"
    /\ ~stream_pending
    /\ node = n

\* The environment asks for cancellation.
Cancel ==
    /\ run_status = "running"
    /\ ~cancel_requested
    /\ cancel_requested' = TRUE
    /\ UNCHANGED <<configVars, replans_taken, last_screenshot, all_scores_pass, node, run_status, result,
                   stream_pending, planning_steps, current_step, is_complete,
                   critical_error, completed_steps, is_resuming, initial_scene_state,
                   vision_feedback, refinement_attempts, max_refinements_per_step,
                   needs_refinement, quality_scores, needs_replanning,
                   replanning_count, step_io>>

(***************************************************************************)
(* ArtisanAgent nodes                                                      *)
(***************************************************************************)
AnalyzeScene ==
    /\ CanStep("artisan", "analyze_scene")
    /\ \E scene \in SceneInfos :
         initial_scene_state' = [scene_info |-> scene, objects_present |-> scene.has_objects]
    /\ step_io' = RpcIO(2)
    /\ node' = "plan"
    /\ UNCHANGED <<configVars, replans_taken, last_screenshot, all_scores_pass, cancel_requested, run_status, result,
                   stream_pending, planning_steps, current_step, is_complete,
                   critical_error, completed_steps, is_resuming, vision_feedback,
                   refinement_attempts, max_refinements_per_step, needs_refinement,
                   quality_scores, needs_replanning, replanning_count>>

\* _plan_node: get_object_info for the first 5 objects of a scene text that
\* parses.
InspectedObjects(scene) ==
    IF scene.json_ok THEN Min(scene.num_objects, ObjectInspectLimit) ELSE 0

PlanNode ==
    /\ CanStep("artisan", "plan")
    /\ \E response \in PlannerResponses, detection \in DetectionResponses :
         LET steps == ArtisanPlan(response)
             scene == initial_scene_state.scene_info
             resuming == initial_scene_state.objects_present
             few == scene.json_ok /\ scene.num_objects <= TemplateObjectLimit
             done == CompletedIndices(detection, Len(steps))
         IN  /\ is_resuming' = resuming
             /\ planning_steps' = steps
             /\ IF resuming /\ ~few
                THEN /\ completed_steps' = done
                     /\ current_step' = ResumeStep(done)
                     /\ step_io' = [SentIO(2, 0) EXCEPT !.rpc = InspectedObjects(scene)]
                ELSE /\ completed_steps' = <<>>
                     /\ current_step' = 0
                     /\ step_io' = SentIO(1, 0)
    /\ node' = "execute_step"
    /\ UNCHANGED <<configVars, replans_taken, last_screenshot, all_scores_pass, cancel_requested, run_status, result,
                   stream_pending, is_complete, critical_error, initial_scene_state,
                   vision_feedback, refinement_attempts, max_refinements_per_step,
                   needs_refinement, quality_scores, needs_replanning, replanning_count>>

ExecuteStep ==
    /\ CanStep("artisan", "execute_step")
    /\ \/ /\ IF cancel_requested
             THEN /\ is_complete' = TRUE
                  /\ critical_error' = Cancelled
                  /\ step_io' = NoIO
                  /\ UNCHANGED current_step
             ELSE IF StepsExhausted(current_step, planning_steps)
             THEN /\ is_complete' = TRUE
                  /\ step_io' = NoIO
                  /\ UNCHANGED <<critical_error, current_step>>
             ELSE \E calls \in ToolCallSeqs :
                  /\ step_io' = StepIO(1, calls, current_step)
                  /\ IF HaltsStep(calls, current_step)
                     THEN /\ critical_error' = StepFailed
                          /\ UNCHANGED current_step
                     ELSE /\ current_step' = NextStep(current_step)
                          /\ UNCHANGED critical_error
                  /\ UNCHANGED is_complete
          /\ node' = "capture_feedback"
          /\ UNCHANGED <<run_status, result>>
       \* self.llm.bind_tools(tools).invoke(messages) raises: nothing in the
       \* node or in run() catches it.
       \/ /\ ~cancel_requested
          /\ ~StepsExhausted(current_step, planning_steps)
          /\ step_io' = FailedIO
          /\ run_status' = "raised"
          /\ result' = Raised("ModelError")
          /\ UNCHANGED <<node, is_complete, critical_error, current_step>>
    /\ UNCHANGED <<configVars, replans_taken, last_screenshot, all_scores_pass, cancel_requested,
                   stream_pending, planning_steps, completed_steps, is_resuming,
                   initial_scene_state, vision_feedback, refinement_attempts,
                   max_refinements_per_step, needs_refinement, quality_scores,
                   needs_replanning, replanning_count>>

\* The camera code and the screenshot tool are called; the screenshot may
\* fail. After a screenshot the vision call may fail (caught): only a
\* successful one appends to vision_feedback, the text of the response, which
\* may be empty; get_scene_info is called then.
CaptureFeedback ==
    /\ CanStep("artisan", "capture_feedback")
    /\ \/ /\ UNCHANGED vision_feedback
          /\ \E ok \in BOOLEAN : step_io' = [RpcIO(2) EXCEPT !.snap_ok = ok]
       \/ /\ \/ UNCHANGED vision_feedback
             \/ \E fb \in Feedbacks : vision_feedback' = <<fb>>
             \/ vision_feedback' = <<>>
          /\ step_io' = [RpcIO(3) EXCEPT !.snap_ok = TRUE,
                                         !.described = CurrentStepDesc(planning_steps,
                                                                       current_step)]
    /\ node' = "assess_quality"
    /\ UNCHANGED <<configVars, replans_taken, last_screenshot, all_scores_pass, cancel_requested, run_status, result,
                   stream_pending, planning_steps, current_step, is_complete,
                   critical_error, completed_steps, is_resuming, initial_scene_state,
                   refinement_attempts, max_refinements_per_step, needs_refinement,
                   quality_scores, needs_replanning, replanning_count>>

AssessQuality ==
    /\ CanStep("artisan", "assess_quality")
    /\ LET max_attempts == IF max_refinements_per_step = Unset
                           THEN LoadMaxRefinements(env_refinement_steps)
                           ELSE max_refinements_per_step
           needs == IF vision_feedback = <<>> THEN FALSE
                    ELSE NeedsRefinement(vision_feedback[1], current_step,
                                         refinement_attempts, max_attempts)
       IN  /\ max_refinements_per_step' = max_attempts
           /\ needs_refinement' = needs
           /\ refinement_attempts' =
                IF vision_feedback # <<>> /\ ~needs THEN 0 ELSE refinement_attempts
           /\ all_scores_pass' =
                IF vision_feedback = <<>> THEN all_scores_pass
                ELSE all_scores_pass /\ ScorePasses(vision_feedback[1], current_step)
           /\ node' = IF ShouldRefine(enable_refinement, needs) = "refine"
                      THEN "refine_step" ELSE "evaluate_progress"
    /\ step_io' = [NoIO EXCEPT !.scored = IF vision_feedback = <<>> THEN 0 ELSE 1]
    /\ UNCHANGED <<configVars, replans_taken, last_screenshot, cancel_requested, run_status, result,
                   stream_pending, planning_steps, current_step, is_complete,
                   critical_error, completed_steps, is_resuming, initial_scene_state,
                   vision_feedback, quality_scores, needs_replanning, replanning_count>>

\* The reasoning call may fail (caught); every requested call is sent.
RefineStep ==
    /\ CanStep("artisan", "refine_step")
    /\ refinement_attempts' = refinement_attempts + 1
    /\ \E n \in 0..MaxCalls :
         step_io' = [SentIO(1, n) EXCEPT !.described = CurrentStepDesc(planning_steps,
                                                                      current_step)]
    /\ node' = "capture_feedback"
    /\ UNCHANGED <<configVars, replans_taken, last_screenshot, all_scores_pass, cancel_requested, run_status, result,
                   stream_pending, planning_steps, current_step, is_complete,
                   critical_error, completed_steps, is_resuming, initial_scene_state,
                   vision_feedback, max_refinements_per_step, needs_refinement,
                   quality_scores, needs_replanning, replanning_count>>

\* _evaluate_progress_node followed by the conditional edge _should_continue,
\* whose critical-error branch reads self.logger, an attribute ArtisanAgent
\* never sets: the AttributeError leaves run(), which catches only
\* GraphRecursionError.
EvaluateProgress ==
    /\ CanStep("artisan", "evaluate_progress")
    /\ is_complete' = (is_complete \/ StepsExhausted(current_step, planning_steps))
    /\ IF critical_error # None
       THEN /\ run_status' = "raised"
            /\ result' = Raised("AttributeError")
            /\ UNCHANGED node
       ELSE /\ node' = IF is_complete' THEN "complete" ELSE "execute_step"
            /\ UNCHANGED <<run_status, result>>
    /\ step_io' = NoIO
    /\ UNCHANGED <<configVars, replans_taken, last_screenshot, all_scores_pass, cancel_requested, stream_pending,
                   planning_steps, current_step, critical_error, completed_steps,
                   is_resuming, initial_scene_state, vision_feedback,
                   refinement_attempts, max_refinements_per_step, needs_refinement,
                   quality_scores, needs_replanning, replanning_count>>

CompleteNode ==
    /\ CanStep("artisan", "complete")
    /\ node' = "END"
    /\ step_io' = NoIO
    /\ UNCHANGED <<configVars, replans_taken, last_screenshot, all_scores_pass, cancel_requested, run_status, result,
                   stream_pending, planning_steps, current_step, is_complete,
                   critical_error, completed_steps, is_resuming, initial_scene_state,
                   vision_feedback, refinement_attempts, max_refinements_per_step,
                   needs_refinement, quality_scores, needs_replanning, replanning_count>>

\* run(): the results dictionary built from the final state, or from the
\* latest checkpoint when the recursion limit was reached.
ArtisanResults(limit_reached) ==
    [kind |-> "returned",
     success |-> is_complete /\ ~limit_reached,
     steps_executed |-> current_step,
     total_steps |-> Len(planning_steps),
     partial_completion |-> limit_reached,
     can_resume |-> limit_reached \/ ~(is_complete /\ ~limit_reached),
     recursion_limit_reached |-> limit_reached,
     error |-> None]

ArtisanRunReturn ==
    /\ agent = "artisan"
    /\ run_status = "running"
    /\ node = "END"
    /\ run_status' = "returned"
    /\ result' = ArtisanResults(FALSE)
    /\ UNCHANGED <<configVars, replans_taken, last_screenshot, all_scores_pass, cancel_requested, node,
                   stream_pending, planning_steps, current_step, is_complete,
                   critical_error, completed_steps, is_resuming, initial_scene_state,
                   vision_feedback, refinement_attempts, max_refinements_per_step,
                   needs_refinement, quality_scores, needs_replanning,
                   replanning_count, step_io>>

ArtisanRecursionLimit ==
    /\ agent = "artisan"
    /\ run_status = "running"
    /\ node \notin {"analyze_scene", "END"}
    /\ run_status' = "returned"
    /\ result' = ArtisanResults(TRUE)
    /\ UNCHANGED <<configVars, replans_taken, last_screenshot, all_scores_pass, cancel_requested, node,
                   stream_pending, planning_steps, current_step, is_complete,
                   critical_error, completed_steps, is_resuming, initial_scene_state,
                   vision_feedback, refinement_attempts, max_refinements_per_step,
                   needs_refinement, quality_scores, needs_replanning,
                   replanning_count, step_io>>

(***************************************************************************)
(* SculptorAgent: pure parts of the nodes                                  *)
(***************************************************************************)
\* _plan_steps_node: the response is a JSON list of n well-formed steps, or
\* something json.loads or the comprehension rejects (the fallback plan).
SculptorResponses == [ok : {TRUE}, size : PlanSizes] \cup {[ok |-> FALSE, size |-> 0]}

SculptorPlan(response) ==
    IF response.ok THEN Steps(response.size) ELSE Steps(SculptorFallbackLen)

\* _capture_feedback_node: the first percentage of the feedback, 50 without one
ComparisonScore(percentage) ==
    IF percentage = NoRating THEN SculptorDefaultScore ELSE percentage

\* _assess_progress_node: average of the last three scores against 75
AverageReached(scores) ==
    LET recent == LastN(scores, ScoreWindow)
    IN  SeqSum(recent) >= SculptorCompleteScore * Min(ScoreWindow, Len(scores))

\* _assess_progress_node: replan while replanning_count < max_replanning_attempts
NeedsReplanningOnceMore(scores, count) ==
    /\ scores # <<>>
    /\ ~AverageReached(scores)
    /\ count <= SculptorMaxReplanning

NeedsReplanning(scores, count) ==
    /\ scores # <<>>
    /\ ~AverageReached(scores)
    /\ count < SculptorMaxReplanning

\* _should_continue
SculptorShouldContinue(error, complete, replanning) ==
    IF error # None THEN "complete"
    ELSE IF complete THEN "complete"
    ELSE IF replanning THEN "replan"
    ELSE "continue"

(***************************************************************************)
(* SculptorAgent nodes; run() streams the state after each of them         *)
(***************************************************************************)
AnalyzeInputImage ==
    /\ CanStep("sculptor", "analyze_input_image")
    /\ \/ UNCHANGED critical_error
       \/ critical_error' = VisionFailed
    /\ step_io' = NoIO
    /\ node' = "load_reference_image"
    /\ stream_pending' = TRUE
    /\ UNCHANGED <<configVars, replans_taken, last_screenshot, all_scores_pass, cancel_requested, run_status, result,
                   planning_steps, current_step, is_complete, completed_steps,
                   is_resuming, initial_scene_state, vision_feedback,
                   refinement_attempts, max_refinements_per_step, needs_refinement,
                   quality_scores, needs_replanning, replanning_count>>

LoadReferenceImage ==
    /\ CanStep("sculptor", "load_reference_image")
    /\ \E loaded \in BOOLEAN :
         step_io' = [SentIO(0, 1) EXCEPT !.recorded = IF loaded THEN 1 ELSE 0]
    /\ node' = "plan_steps"
    /\ stream_pending' = TRUE
    /\ UNCHANGED <<configVars, replans_taken, last_screenshot, all_scores_pass, cancel_requested, run_status, result,
                   planning_steps, current_step, is_complete, critical_error,
                   completed_steps, is_resuming, initial_scene_state, vision_feedback,
                   refinement_attempts, max_refinements_per_step, needs_refinement,
                   quality_scores, needs_replanning, replanning_count>>

PlanStepsNode ==
    /\ CanStep("sculptor", "plan_steps")
    /\ \E response \in SculptorResponses :
         /\ planning_steps' = SculptorPlan(response)
         /\ needs_replanning' = IF response.ok THEN FALSE ELSE needs_replanning
    /\ step_io' = SentIO(1, 0)
    /\ node' = "execute_step"
    /\ stream_pending' = TRUE
    /\ UNCHANGED <<configVars, replans_taken, last_screenshot, all_scores_pass, cancel_requested, run_status, result,
                   current_step, is_complete, critical_error, completed_steps,
                   is_resuming, initial_scene_state, vision_feedback,
                   refinement_attempts, max_refinements_per_step, needs_refinement,
                   quality_scores, replanning_count>>

\* The reasoning call may fail: the except branch records the error and
\* advances current_step all the same.
SculptorExecuteStep ==
    /\ CanStep("sculptor", "execute_step")
    /\ IF StepsExhausted(current_step, planning_steps)
       THEN /\ is_complete' = TRUE
            /\ step_io' = NoIO
            /\ UNCHANGED <<critical_error, current_step>>
       ELSE IF cancel_requested
       THEN /\ critical_error' = Cancelled
            /\ step_io' = NoIO
            /\ UNCHANGED <<is_complete, current_step>>
       ELSE /\ \/ \E n \in 0..MaxCalls : step_io' = SculptorStepIO(n)
               \/ step_io' = SculptorFailedIO
            /\ current_step' = NextStep(current_step)
            /\ UNCHANGED <<is_complete, critical_error>>
    /\ node' = "capture_feedback"
    /\ stream_pending' = TRUE
    /\ UNCHANGED <<configVars, replans_taken, last_screenshot, all_scores_pass, cancel_requested, run_status, result,
                   planning_steps, completed_steps, is_resuming, initial_scene_state,
                   vision_feedback, refinement_attempts, max_refinements_per_step,
                   needs_refinement, quality_scores, needs_replanning, replanning_count>>

\* The agent's own BlenderMCPConnection.call_tool returns no image_data; only
\* a shared connection can. With image data step_NNN.png is written, NNN
\* being current_step; without image data, or when the vision call fails, no
\* score is recorded.
SculptorCaptureFeedback ==
    /\ CanStep("sculptor", "capture_feedback")
    /\ \/ /\ \E ok \in BOOLEAN : step_io' = [SentIO(0, 1) EXCEPT !.snap_ok = ok]
          /\ UNCHANGED <<quality_scores, last_screenshot>>
       \/ /\ ~owns_mcp
          /\ last_screenshot' = current_step
          /\ \/ /\ UNCHANGED quality_scores
                /\ step_io' = [SentIO(0, 1) EXCEPT !.saved = current_step,
                                                   !.snap_ok = TRUE]
             \/ /\ \E pct \in Percentages :
                     quality_scores' = LastN(Append(quality_scores, ComparisonScore(pct)),
                                             ScoreWindow)
                /\ step_io' = [SentIO(0, 1) EXCEPT !.saved = current_step,
                                                   !.snap_ok = TRUE, !.scored = 1]
    /\ node' = "assess_progress"
    /\ stream_pending' = TRUE
    /\ UNCHANGED <<configVars, replans_taken, all_scores_pass, cancel_requested, run_status, result,
                   planning_steps, current_step, is_complete, critical_error,
                   completed_steps, is_resuming, initial_scene_state, vision_feedback,
                   refinement_attempts, max_refinements_per_step, needs_refinement,
                   needs_replanning, replanning_count>>

AssessProgress ==
    /\ CanStep("sculptor", "assess_progress")
    /\ LET done == StepsExhausted(current_step, planning_steps)
           replan == done /\ NeedsReplanning(quality_scores, replanning_count)
       IN  /\ is_complete' = (is_complete \/ (done /\ ~replan))
           /\ needs_replanning' = (needs_replanning \/ replan)
           /\ replanning_count' = IF replan THEN replanning_count + 1 ELSE replanning_count
           /\ node' = LET next == SculptorShouldContinue(critical_error, is_complete',
                                                         needs_replanning')
                      IN  IF next = "complete" THEN "complete"
                          ELSE IF next = "replan" THEN "plan_steps"
                          ELSE "execute_step"
    /\ replans_taken' = IF node' = "plan_steps" THEN replans_taken + 1 ELSE replans_taken
    /\ step_io' = NoIO
    /\ stream_pending' = TRUE
    /\ UNCHANGED <<configVars, last_screenshot, all_scores_pass, cancel_requested, run_status, result,
                   planning_steps, current_step, critical_error, completed_steps,
                   is_resuming, initial_scene_state, vision_feedback,
                   refinement_attempts, max_refinements_per_step, needs_refinement,
                   quality_scores>>

SculptorCompleteNode ==
    /\ CanStep("sculptor", "complete")
    /\ is_complete' = TRUE
    /\ node' = "END"
    /\ step_io' = NoIO
    /\ stream_pending' = TRUE
    /\ UNCHANGED <<configVars, replans_taken, last_screenshot, all_scores_pass, cancel_requested, run_status, result,
                   planning_steps, current_step, critical_error, completed_steps,
                   is_resuming, initial_scene_state, vision_feedback,
                   refinement_attempts, max_refinements_per_step, needs_refinement,
                   quality_scores, needs_replanning, replanning_count>>

\* run(): the dictionaries it returns. steps_executed of the cancelled and of
\* the recursion-limit result is read from initial_state, whose current_step
\* is 0; a key the dictionary lacks reads as FALSE.
SculptorResults ==
    [kind |-> "returned",
     success |-> is_complete /\ critical_error = None,
     steps_executed |-> current_step,
     total_steps |-> Len(planning_steps),
     partial_completion |-> FALSE,
     can_resume |-> FALSE,
     recursion_limit_reached |-> FALSE,
     error |-> critical_error]

SculptorAborted(error, limit_reached) ==
    [kind |-> "returned",
     success |-> FALSE,
     steps_executed |-> 0,
     total_steps |-> 0,
     partial_completion |-> FALSE,
     can_resume |-> FALSE,
     recursion_limit_reached |-> limit_reached,
     error |-> error]

\* run(): the body of the astream loop for one state update.
SculptorStreamUpdate ==
    /\ agent = "sculptor"
    /\ run_status = "running"
    /\ stream_pending
    /\ stream_pending' = FALSE
    /\ IF cancel_requested
       THEN /\ run_status' = "returned"
            /\ result' = SculptorAborted("Cancelled by user", FALSE)
       ELSE UNCHANGED <<run_status, result>>
    /\ UNCHANGED <<configVars, replans_taken, last_screenshot, all_scores_pass, cancel_requested, node, planning_steps, current_step,
                   is_complete, critical_error, completed_steps, is_resuming,
                   initial_scene_state, vision_feedback, refinement_attempts,
                   max_refinements_per_step, needs_refinement, quality_scores,
                   needs_replanning, replanning_count, step_io>>

SculptorRunReturn ==
    /\ agent = "sculptor"
    /\ run_status = "running"
    /\ ~stream_pending
    /\ node = "END"
    /\ run_status' = "returned"
    /\ result' = SculptorResults
    /\ UNCHANGED <<configVars, replans_taken, last_screenshot, all_scores_pass, cancel_requested, node, stream_pending,
                   planning_steps, current_step, is_complete, critical_error,
                   completed_steps, is_resuming, initial_scene_state, vision_feedback,
                   refinement_attempts, max_refinements_per_step, needs_refinement,
                   quality_scores, needs_replanning, replanning_count, step_io>>

SculptorRecursionLimit ==
    /\ agent = "sculptor"
    /\ run_status = "running"
    /\ ~stream_pending
    /\ node \notin {"analyze_input_image", "END"}
    /\ run_status' = "returned"
    /\ result' = SculptorAborted("Recursion limit reached", TRUE)
    /\ UNCHANGED <<configVars, replans_taken, last_screenshot, all_scores_pass, cancel_requested, node, stream_pending,
                   planning_steps, current_step, is_complete, critical_error,
                   completed_steps, is_resuming, initial_scene_state, vision_feedback,
                   refinement_attempts, max_refinements_per_step, needs_refinement,
                   quality_scores, needs_replanning, replanning_count, step_io>>

Next ==
    \/ Cancel
    \/ AnalyzeScene
    \/ PlanNode
    \/ ExecuteStep
    \/ CaptureFeedback
    \/ AssessQuality
    \/ RefineStep
    \/ EvaluateProgress
    \/ CompleteNode
    \/ ArtisanRunReturn
    \/ ArtisanRecursionLimit
    \/ AnalyzeInputImage
    \/ LoadReferenceImage
    \/ PlanStepsNode
    \/ SculptorExecuteStep
    \/ SculptorCaptureFeedback
    \/ AssessProgress
    \/ SculptorCompleteNode
    \/ SculptorStreamUpdate
    \/ SculptorRunReturn
    \/ SculptorRecursionLimit

Spec == Init /\ [][Next]_vars

(***************************************************************************)
(* invoke_with_retry on its own: one call of the helper, with the model's  *)
(* answers chosen by the environment                                       *)
(***************************************************************************)
graphVars == <<agent, owns_mcp, cancel_requested, env_refinement_steps,
               node, run_status, result, stream_pending,
               planning_steps, current_step, is_complete, critical_error,
               completed_steps, is_resuming, initial_scene_state, vision_feedback,
               refinement_attempts, max_refinements_per_step, needs_refinement,
               enable_refinement, quality_scores, needs_replanning,
               replanning_count, step_io, all_scores_pass,
               use_deterministic_session, last_screenshot, replans_taken>>

RetryInit ==
    /\ GraphInit
    /\ use_deterministic_session
    /\ owns_mcp
    /\ enable_refinement
    /\ env_refinement_steps = NotAnInt
    /\ session = NoSession
    /\ artisan_tasks = <<>>
    /\ \E sync \in (IF agent = "artisan" THEN {FALSE} ELSE BOOLEAN),
          max_retries \in 0..MaxRetryLimit :
         retry = RetryStart(agent, sync, max_retries)

\* for attempt in range(max_retries): the model is called and answers.
RetryCallReturns ==
    /\ retry.status = "loop"
    /\ retry.attempt < retry.max_retries
    /\ retry' = [retry EXCEPT !.status = "returned", !.calls = @ + 1, !.last = "ok"]
    /\ UNCHANGED <<graphVars, session, artisan_tasks>>

\* The call raises: a rate-limit error before the last attempt is slept on
\* and the loop goes on; any other error, and the last attempt's, is raised.
RetryCallRaises ==
    /\ retry.status = "loop"
    /\ retry.attempt < retry.max_retries
    /\ \E e \in CallOutcomes \ {"ok"} :
         IF IsRateLimit(agent, e) /\ retry.attempt < retry.max_retries - 1
         THEN retry' = [retry EXCEPT !.calls = @ + 1, !.last = e,
                                     !.waits = Append(@, WaitTime(retry.base_wait,
                                                                  retry.attempt)),
                                     !.attempt = @ + 1]
         ELSE retry' = [retry EXCEPT !.status = "raised", !.calls = @ + 1, !.last = e]
    /\ UNCHANGED <<graphVars, session, artisan_tasks>>

\* range(max_retries) is empty: the loop body never runs and the helper
\* returns None.
RetryLoopEmpty ==
    /\ retry.status = "loop"
    /\ retry.attempt >= retry.max_retries
    /\ retry' = [retry EXCEPT !.status = "returned"]
    /\ UNCHANGED <<graphVars, session, artisan_tasks>>

RetryNext ==
    \/ RetryCallReturns
    \/ RetryCallRaises
    \/ RetryLoopEmpty

RetrySpec == RetryInit /\ [][RetryNext]_vars

(***************************************************************************)
(* The session key of a run.  A path is the sequence of its bytes; the     *)
(* digests are folded over the bytes and cut to the first MaxKeyChars hex  *)
(* digits                                                                  *)
(***************************************************************************)
Sep == <<47>>
WorkDirs == {<<47, 119>>, <<47, 120>>}
InputPaths == {<<114>>, <<115>>, <<47, 119, 47, 114>>}
SessionIds == {1, 2}

\* hexdigest()[:n]: the digest keeps n hex digits
KeySpace == 16 ^ MaxKeyChars

RECURSIVE Digest(_, _, _)
Digest(bytes, mult, acc) ==
    IF bytes = <<>> THEN acc
    ELSE Digest(Tail(bytes), mult, (acc * mult + Head(bytes)) % KeySpace)

Sha256Hex(bytes) == Digest(bytes, 31, 7)
Md5Hex(bytes) == Digest(bytes, 33, 5)

\* Path(p).resolve(): an absolute path stays, a relative one is joined to
\* the working directory
Resolve(cwd, path) ==
    IF Head(path) = Head(Sep) THEN path ELSE cwd \o Sep \o path

\* str(uuid4())
UuidKey(id) == [kind |-> "uuid", value |-> id]

GenerateSessionId(impl, cwd, path) ==
    IF impl = "artisan"
    THEN [kind |-> "digest", value |-> Sha256Hex(Resolve(cwd, path))]
    ELSE [kind |-> "digest", value |-> Md5Hex(path)]

SessionKeyAlwaysOwn(impl, own, deterministic, cwd, path) == own

\* the key run() files the checkpoints and the thread under
SessionKey(impl, own, deterministic, cwd, path) ==
    IF deterministic THEN GenerateSessionId(impl, cwd, path) ELSE own

SessionInit ==
    /\ GraphInit
    /\ use_deterministic_session
    /\ owns_mcp
    /\ enable_refinement
    /\ env_refinement_steps = NotAnInt
    /\ retry = NoRetry
    /\ session = NoSession
    /\ artisan_tasks = <<>>

\* __init__: self.session_id = session_id or str(uuid4())
SessionNewAgent ==
    /\ Len(session.runs) < MaxRuns
    /\ \E id \in SessionIds :
         session' = [session EXCEPT !.uuid = UuidKey(id), !.session_id = UuidKey(id)]
    /\ UNCHANGED <<graphVars, retry, artisan_tasks>>

\* run(path, use_deterministic_session): the key of the run is chosen;
\* ArtisanAgent stores a generated key in self.session_id, SculptorAgent
\* keeps it in a local.
SessionRun ==
    /\ session.session_id # NoKey
    /\ Len(session.runs) < MaxRuns
    /\ \E path \in InputPaths, cwd \in WorkDirs, deterministic \in BOOLEAN :
         LET key == SessionKey(agent, session.session_id, deterministic, cwd, path)
         IN session' =
              [session EXCEPT
                 !.session_id = IF agent = "artisan" THEN key ELSE @,
                 !.runs = Append(@, [path |-> path, cwd |-> cwd,
                                     uuid |-> session.uuid,
                                     deterministic |-> deterministic,
                                     key |-> key])]
    /\ UNCHANGED <<graphVars, retry, artisan_tasks>>

SessionNext ==
    \/ SessionNewAgent
    \/ SessionRun

SessionSpec == SessionInit /\ [][SessionNext]_vars

(***************************************************************************)
(* The backend's task interface for ArtisanAgent: artisan_tasks and the    *)
(* background runner of each task.  A task id is the position of the task  *)
(* in the table; runner is the place _run_artisan_task has reached         *)
(***************************************************************************)
BackendCwd == <<47, 119>>
RunOutcomes == {"success", "incomplete", "partial", "raised"}

\* BlenderMCPConnection of the task's agent: whether session_context is
\* set, _cleanup_done, and how often the session was closed.
NewConnection == [connected |-> FALSE, cleanup_done |-> FALSE, closes |-> 0]

\* A cleanup that marks the connection cleaned up without closing it.
McpCleanupSkipsClose(mcp) == [mcp EXCEPT !.cleanup_done = TRUE]

\* BlenderMCPConnection.cleanup
McpCleanup(mcp) ==
    IF mcp.cleanup_done THEN mcp
    ELSE [mcp EXCEPT !.closes = IF mcp.connected THEN @ + 1 ELSE @,
                     !.connected = FALSE,
                     !.cleanup_done = TRUE]

\* The task_info keys the runner and the handlers write, the connection of
\* the task's agent, and how often the runner called agent.cleanup().
NewTask(file, use_resume) ==
    [status |-> "initializing", requirement_file |-> file, use_resume |-> use_resume,
     cancelled |-> FALSE, error |-> FALSE, runner |-> "scheduled", session_id |-> NoKey,
     mcp |-> NewConnection, cleanups |-> 0]

\* The status the runner stores for what agent.run returned.
StatusOf(outcome) ==
    IF outcome = "partial" THEN "partial_completion" ELSE "completed"

BackendInit ==
    /\ GraphInit
    /\ use_deterministic_session
    /\ agent = "artisan"
    /\ owns_mcp
    /\ enable_refinement
    /\ env_refinement_steps = NotAnInt
    /\ retry = NoRetry
    /\ session = NoSession
    /\ artisan_tasks = <<>>

\* POST /artisan/model with a requirement file that exists.
StartArtisanModeling ==
    /\ Len(artisan_tasks) < MaxTasks
    /\ \E file \in InputPaths, use_resume \in BOOLEAN :
         artisan_tasks' = Append(artisan_tasks, NewTask(file, use_resume))
    /\ UNCHANGED <<graphVars, retry, session>>

\* _run_artisan_task starts: cancelled before initialization, or running.
RunnerStarts ==
    /\ \E t \in 1..Len(artisan_tasks) :
         /\ artisan_tasks[t].runner = "scheduled"
         /\ artisan_tasks' =
              [artisan_tasks EXCEPT
                 ![t] = IF @.cancelled
                        THEN [@ EXCEPT !.status = "cancelled", !.runner = "cleanup"]
                        ELSE [@ EXCEPT !.status = "running", !.runner = "initialize"]]
    /\ UNCHANGED <<graphVars, retry, session>>

\* await agent.initialize() ends: it raised (before or after the session
\* was opened), the task was cancelled meanwhile, or agent.run is entered
\* and fixes the session id of the run.
RunnerInitialized ==
    /\ \E t \in 1..Len(artisan_tasks), raised \in BOOLEAN, connected \in BOOLEAN :
         /\ artisan_tasks[t].runner = "initialize"
         /\ ~raised => connected
         /\ artisan_tasks' =
              [artisan_tasks EXCEPT
                 ![t] = IF raised
                        THEN [@ EXCEPT !.status = "failed", !.error = TRUE,
                                       !.runner = "cleanup",
                                       !.mcp.connected = connected]
                        ELSE IF @.cancelled
                        THEN [@ EXCEPT !.status = "cancelled", !.runner = "cleanup",
                                       !.mcp.connected = TRUE]
                        ELSE [@ EXCEPT !.runner = "run",
                                       !.mcp.connected = TRUE,
                                       !.session_id =
                                           SessionKey("artisan", UuidKey(t),
                                                      artisan_tasks[t].use_resume,
                                                      BackendCwd,
                                                      artisan_tasks[t].requirement_file)]]
    /\ UNCHANGED <<graphVars, retry, session>>

\* await agent.run(...) ends: it raised, the task was cancelled meanwhile,
\* or the result decides the status.
RunnerRunEnds ==
    /\ \E t \in 1..Len(artisan_tasks), outcome \in RunOutcomes :
         /\ artisan_tasks[t].runner = "run"
         /\ artisan_tasks' =
              [artisan_tasks EXCEPT
                 ![t] = IF outcome = "raised"
                        THEN [@ EXCEPT !.status = "failed", !.error = TRUE,
                                       !.runner = "cleanup"]
                        ELSE IF @.cancelled
                        THEN [@ EXCEPT !.status = "cancelled", !.runner = "cleanup"]
                        ELSE [@ EXCEPT !.status = StatusOf(outcome),
                                       !.runner = "cleanup"]]
    /\ UNCHANGED <<graphVars, retry, session>>

\* finally: await agent.cleanup()
RunnerCleanup ==
    /\ \E t \in 1..Len(artisan_tasks) :
         /\ artisan_tasks[t].runner = "cleanup"
         /\ artisan_tasks' =
              [artisan_tasks EXCEPT ![t].runner = "done",
                                    ![t].cleanups = @ + 1,
                                    ![t].mcp = McpCleanup(@)]
    /\ UNCHANGED <<graphVars, retry, session>>

\* POST /artisan/cancel/{task_id} for a task that is initializing or
\* running; for any other status the handler changes nothing.
CancelArtisanTask ==
    /\ \E t \in 1..Len(artisan_tasks) :
         /\ artisan_tasks[t].status \in {"initializing", "running"}
         /\ artisan_tasks' =
              [artisan_tasks EXCEPT ![t].cancelled = TRUE, ![t].status = "cancelled"]
    /\ UNCHANGED <<graphVars, retry, session>>

BackendNext ==
    \/ StartArtisanModeling
    \/ RunnerStarts
    \/ RunnerInitialized
    \/ RunnerRunEnds
    \/ RunnerCleanup
    \/ CancelArtisanTask

BackendSpec == BackendInit /\ [][BackendNext]_vars

\* The event loop runs every runner it has scheduled, and every await of the
\* runner returns or raises.
RunnerStep ==
    \/ RunnerStarts
    \/ RunnerInitialized
    \/ RunnerRunEnds
    \/ RunnerCleanup

BackendFairSpec == BackendInit /\ [][BackendNext]_vars /\ WF_vars(RunnerStep)

(***************************************************************************)
(* The score of one feedback text on its own: the number the pattern finds *)
(* in the text is chosen by the vision model                               *)
(***************************************************************************)
\* The number a text can carry: any run of digits (None: the pattern finds
\* nothing).
TextNumbers == {NoRating} \cup 0..MaxNumber

ScoreInit ==
    /\ agent \in {"artisan", "sculptor"}
    /\ owns_mcp = (agent = "artisan")
    /\ cancel_requested = FALSE
    /\ env_refinement_steps = NotAnInt
    /\ enable_refinement = TRUE
    /\ node = IF agent = "artisan" THEN "assess_quality" ELSE "capture_feedback"
    /\ run_status = "running"
    /\ result = NoResult
    /\ stream_pending = FALSE
    /\ planning_steps = Steps(1)
    /\ current_step = 1
    /\ is_complete = FALSE
    /\ critical_error = None
    /\ completed_steps = <<>>
    /\ is_resuming = FALSE
    /\ initial_scene_state = NoScene
    /\ \E n \in TextNumbers : vision_feedback = <<[rating |-> n, phrases |-> {}]>>
    /\ refinement_attempts = 0
    /\ max_refinements_per_step = Unset
    /\ needs_refinement = FALSE
    /\ quality_scores = <<>>
    /\ needs_replanning = FALSE
    /\ replanning_count = 0
    /\ step_io = NoIO
    /\ all_scores_pass = TRUE
    /\ use_deterministic_session = TRUE
    /\ last_screenshot = NoShot
    /\ replans_taken = 0
    /\ retry = NoRetry
    /\ session = NoSession
    /\ artisan_tasks = <<>>

\* quality_score = int(<the digits matched>), or the default; the entry is
\* appended to state["quality_scores"].
ScoreParsed ==
    /\ quality_scores = <<>>
    /\ quality_scores' =
         <<IF agent = "artisan" THEN QualityScore(vision_feedback[1])
           ELSE ComparisonScore(vision_feedback[1].rating)>>
    /\ step_io' = [NoIO EXCEPT !.scored = 1]
    /\ UNCHANGED <<configVars, replans_taken, cancel_requested, node, run_status, result,
                   stream_pending, planning_steps, current_step, is_complete,
                   critical_error, completed_steps, is_resuming,
                   initial_scene_state, vision_feedback, refinement_attempts,
                   max_refinements_per_step, needs_refinement, needs_replanning,
                   replanning_count, all_scores_pass, last_screenshot>>

ScoreSpec == ScoreInit /\ [][ScoreParsed]_vars

(***************************************************************************)
(* The graphs without an iteration cap: the recursion limit never stops a  *)
(* run, and every node that is scheduled runs to its end                   *)
(***************************************************************************)
GraphStep ==
    \/ AnalyzeScene
    \/ PlanNode
    \/ ExecuteStep
    \/ CaptureFeedback
    \/ AssessQuality
    \/ RefineStep
    \/ EvaluateProgress
    \/ CompleteNode
    \/ ArtisanRunReturn
    \/ AnalyzeInputImage
    \/ LoadReferenceImage
    \/ PlanStepsNode
    \/ SculptorExecuteStep
    \/ SculptorCaptureFeedback
    \/ AssessProgress
    \/ SculptorCompleteNode
    \/ SculptorStreamUpdate
    \/ SculptorRunReturn

UncappedNext ==
    \/ Cancel
    \/ GraphStep

UncappedSpec == Init /\ [][UncappedNext]_vars /\ WF_vars(GraphStep)

(***************************************************************************)
(* Properties                                                              *)
(***************************************************************************)
\* The cap the Quality Gate applies: the loaded one, or the one the first
\* assessment will load.
EffectiveMaxRefinements ==
    IF max_refinements_per_step = Unset
    THEN LoadMaxRefinements(env_refinement_steps)
    ELSE max_refinements_per_step

\* A step of the Quality Gate of the text-goal orchestrator.
AssessStep == agent = "artisan" /\ node = "assess_quality" /\ node' # node

\* The hazard phrases of the Quality Gate.
HazardPhrases ==
    {"hidden", "occluded", "obscured", "blocked", "overshadow", "not visible", "cannot see"}

HazardPresent(feedback) ==
    \/ feedback.phrases \cap HazardPhrases # {}
    \/ {"behind", "object"} \subseteq feedback.phrases

\* C1: in every state, 0 <= current_step <= len(steps), for both orchestrators
\* and also after a REPLAN.
C1_CurrentStepWithinPlan ==
    0 <= current_step /\ current_step <= Len(planning_steps)

\* C2: refinement_attempts never exceeds max_refinements_per_step, and an
\* assessment made with refinement_attempts >= max_refinements_per_step accepts.
C2_RefinementBounded ==
    /\ [](refinement_attempts <= EffectiveMaxRefinements)
    /\ [][AssessStep /\ refinement_attempts >= EffectiveMaxRefinements
            => ~needs_refinement']_vars

\* C2 witness: an assessment accepted a step at the cap although its feedback
\* contains a hazard phrase.
C2_Witness ==
    /\ agent = "artisan"
    /\ node = "evaluate_progress"
    /\ enable_refinement
    /\ max_refinements_per_step > 0
    /\ vision_feedback # <<>>
    /\ HazardPresent(vision_feedback[1])
    /\ ~needs_refinement

\* The step whose invocations the text-goal Executor has just sent.
JustExecuted ==
    /\ agent = "artisan"
    /\ node = "capture_feedback"
    /\ step_io.llm = 1
    /\ step_io.requested > 0

ExecutedIndex == IF critical_error = StepFailed THEN current_step ELSE current_step - 1

HaltedAt(k) == critical_error = StepFailed /\ step_io.sent = k

C4_CriticalErrorReturned ==
    /\ run_status # "running"
    /\ critical_error \in {StepFailed, VisionFailed}
    /\ ~result.recursion_limit_reached
    /\ result.error # "Cancelled by user"
    => /\ result.kind = "returned"
       /\ ~result.success
       /\ result.error = critical_error

\* C5: a run ended by the iteration cap returns a Result with
\* partial_completion, can_resume and steps_executed = the steps completed.
C5_CapReturnsPartial ==
    run_status # "running" /\ result.recursion_limit_reached
    => /\ result.kind = "returned"
       /\ result.partial_completion
       /\ result.can_resume
       /\ result.steps_executed = current_step

\* C6: once EXECUTE found the cancellation predicate true, no reasoning call
\* is made, no step is executed, and the run ends by returning.
C6_CancelStopsRun ==
    critical_error = Cancelled
    => /\ step_io.llm = 0
       /\ node # "execute_step"
       /\ run_status # "running" => result.kind = "returned"

\* C7: without hazard phrase and below the refinement cap, the step just
\* executed (index current_step - 1) is accepted iff its score reaches 7 when
\* its index is below 5, and iff it reaches 6 otherwise.
C7_ThresholdByExecutedIndex ==
    [][/\ AssessStep
       /\ critical_error = None
       /\ ~is_complete
       /\ vision_feedback # <<>>
       /\ ~HazardPresent(vision_feedback[1])
       /\ refinement_attempts < EffectiveMaxRefinements
       => (~needs_refinement' <=>
             QualityScore(vision_feedback[1]) >=
               (IF current_step - 1 < CriticalStepCutoff
                THEN CriticalThreshold ELSE NormalThreshold))]_vars

\* C8: with refinement enabled and the cap not reached, feedback containing a
\* hazard phrase makes the decision refine, whatever the score, and REFINE is
\* the next state.
C8_HazardForcesRefine ==
    [][/\ AssessStep
       /\ enable_refinement
       /\ vision_feedback # <<>>
       /\ HazardPresent(vision_feedback[1])
       /\ refinement_attempts < EffectiveMaxRefinements
       => needs_refinement' /\ node' = "refine_step"]_vars

\* C8 witness: REFINE entered on feedback with a hazard phrase and a score at
\* the higher threshold.
C8_Witness ==
    /\ agent = "artisan"
    /\ node = "refine_step"
    /\ needs_refinement
    /\ HazardPresent(vision_feedback[1])
    /\ QualityScore(vision_feedback[1]) >= CriticalThreshold

\* C9: every plan the Planner produced is non-empty.
C9_PlanNeverEmpty ==
    planning_steps = <<>>
    => node \in {"analyze_scene", "plan", "analyze_input_image",
                 "load_reference_image", "plan_steps"}

\* C10: after completed-step detection, the steps skipped (those before the
\* starting current_step) are at most max(1, floor(0.3 * len(steps))).
C10_SkipAtMostThirtyPercent ==
    agent = "artisan" /\ node = "execute_step" /\ step_io.llm = 2
    => 10 * current_step <= Max(10, 3 * Len(planning_steps))

\* The Planner of the text-goal orchestrator has just run.
JustPlanned == agent = "artisan" /\ node = "execute_step" /\ step_io.llm >= 1

\* C11: planning on a scene snapshot with fewer than 4 elements attempts no
\* completed-step detection: after planning completed_steps is empty and
\* current_step = 0.
C11_FewElementsStartFresh ==
    JustPlanned /\ initial_scene_state.scene_info.num_objects <= TemplateObjectLimit
    => /\ step_io.llm = 1
       /\ completed_steps = <<>>
       /\ current_step = 0

\* A node of either orchestrator that executes steps runs.
ExecuteStepRuns == node = "execute_step" /\ node' # node

\* C12: current_step never decreases; it changes only by the +1 of an executed
\* step and by the Planner's skip adjustment, which is made once, right after
\* planning and before any step has executed.
C12_CurrentStepMonotone ==
    /\ [][current_step' >= current_step]_vars
    /\ [][current_step' # current_step
            => \/ ExecuteStepRuns /\ current_step' = current_step + 1
               \/ agent = "artisan" /\ node = "plan" /\ node' = "execute_step"]_vars
    /\ [](node \in {"analyze_scene", "plan"} => current_step = 0 /\ step_io.sent = 0)
    /\ [][node' = "plan" => node \in {"analyze_scene", "plan"}]_vars

\* C12 witness: the Planner skipped steps and the Executor then executed the
\* remaining ones up to the end of the plan.
C12_Witness ==
    /\ JustExecuted
    /\ completed_steps # <<>>
    /\ current_step = Len(planning_steps)
    /\ current_step > ResumeStep(completed_steps)

\* C13: entering EXECUTE with current_step = len(steps) sets is_complete,
\* makes no reasoning call, sends no invocation, appends no record to
\* tool_results and leaves current_step unchanged; no step executes
\* afterwards, the next routing decision goes to COMPLETE, and the run, unless
\* the iteration cap or a cancellation ends it first, returns from there.
C13_ExhaustedPlanCompletes ==
    /\ [][ExecuteStepRuns /\ current_step = Len(planning_steps)
            => /\ is_complete'
               /\ step_io' = NoIO
               /\ current_step' = current_step]_vars
    /\ [](is_complete => node # "execute_step")
    /\ [][/\ is_complete
           /\ critical_error # Cancelled
           /\ node \in {"evaluate_progress", "assess_progress"}
           /\ run_status' = "running"
           /\ node' # node
           => node' = "complete"]_vars
    /\ [](/\ is_complete
          /\ current_step = Len(planning_steps)
          /\ critical_error # Cancelled
          /\ run_status # "running"
          /\ ~result.recursion_limit_reached
          /\ result.error # "Cancelled by user"
          => result.kind = "returned" /\ node = "END")

\* C13 witness: the Planner skipped every step, EXECUTE found the plan
\* exhausted, and the run returned from COMPLETE without executing a step.
C13_Witness ==
    /\ agent = "artisan"
    /\ run_status = "returned"
    /\ node = "END"
    /\ result.success
    /\ completed_steps # <<>>
    /\ ResumeStep(completed_steps) = Len(planning_steps)

\* A run of the text-goal orchestrator that returned without reaching the
\* iteration cap.
ArtisanReturned ==
    /\ agent = "artisan"
    /\ run_status = "returned"
    /\ ~result.recursion_limit_reached

LowScoreAssessed ==
    /\ AssessStep
    /\ EffectiveMaxRefinements = DefaultRefinementSteps
    /\ vision_feedback # <<>>
    /\ QualityScore(vision_feedback[1]) < RefinementThreshold(current_step)

\* C15 as stated: with max_refinements_per_step = 2, the decision on the
\* second feedback cycle (the one after the first refinement) of a
\* foundational step that scores below the threshold is accept.
C15_AcceptOnSecondCycle ==
    [][/\ LowScoreAssessed
       /\ critical_error = None
       /\ current_step - 1 < CriticalStepCutoff
       /\ refinement_attempts = 1
       => ~needs_refinement']_vars

\* C15 amended: with max_refinements_per_step = 2, every REFINE adds one to
\* refinement_attempts and is followed by one feedback capture, and the
\* decision on a feedback that scores below the threshold is refine while
\* refinement_attempts is 0 or 1 (the first and the second feedback cycle of
\* a step that started at 0) and accept, forced by the cap, at 2 (the third).
C15_AcceptOnThirdCycle ==
    /\ [][LowScoreAssessed => (needs_refinement' <=> refinement_attempts < 2)]_vars
    /\ [][LowScoreAssessed /\ refinement_attempts = 2
            => refinement_attempts' = 0 /\ node' = "evaluate_progress"]_vars
    /\ [][agent = "artisan" /\ node = "refine_step" /\ node' # node
            => /\ refinement_attempts' = refinement_attempts + 1
               /\ node' = "capture_feedback"]_vars

\* C15 witness: with refinement enabled and a cap of 2, a feedback scoring
\* below both thresholds, without hazard phrase, was accepted.
C15_Witness ==
    /\ agent = "artisan"
    /\ node = "evaluate_progress"
    /\ enable_refinement
    /\ max_refinements_per_step = DefaultRefinementSteps
    /\ vision_feedback # <<>>
    /\ QualityScore(vision_feedback[1]) < NormalThreshold
    /\ ~HazardPresent(vision_feedback[1])
    /\ ~needs_refinement
    /\ refinement_attempts = 0

ModelCalled == retry'.calls = retry.calls + 1

\* The errors classified as rate-limit errors: those whose text contains
\* "rate_limit", and for the image-goal orchestrator also those with "429".
RateLimitErrors ==
    IF agent = "artisan" THEN {"rate_limit"} ELSE {"rate_limit", "429"}

\* C17: invoke_with_retry retries only rate-limit errors: any other error is
\* raised by the call it came from, with no wait and no further call (a first
\* call that fails so is the only call); a rate-limit error before the last
\* attempt is followed by a wait of base_wait * 2^attempt, attempt = 0, 1, 2,
\* ...; the retries (calls after the first) never exceed max_retries; a
\* rate-limit error of the last attempt is raised; and a call that succeeds
\* returns with no further call.
C17_RetryOnlyRateLimits ==
    /\ [][ModelCalled /\ retry'.last \notin RateLimitErrors \cup {"ok"}
            => /\ retry'.status = "raised"
               /\ retry'.waits = retry.waits
               /\ retry.calls = 0 => retry'.calls = 1]_vars
    /\ [][ModelCalled /\ retry'.last \in RateLimitErrors
            => IF retry.attempt < retry.max_retries - 1
               THEN /\ retry'.status = "loop"
                    /\ retry'.waits = Append(retry.waits,
                                             retry.base_wait * (2 ^ retry.attempt))
                    /\ retry'.attempt = retry.attempt + 1
               ELSE retry'.status = "raised"]_vars
    /\ [][ModelCalled /\ retry'.last = "ok"
            => retry'.status = "returned" /\ retry'.waits = retry.waits]_vars
    /\ [][retry.status \in {"returned", "raised"} => retry' = retry]_vars
    /\ [](/\ retry.calls - 1 <= retry.max_retries
          /\ Len(retry.waits) <= retry.max_retries
          /\ retry.attempt = Len(retry.waits)
          /\ \A k \in 1..Len(retry.waits) :
               retry.waits[k] = retry.base_wait * (2 ^ (k - 1)))

\* C17 witness: with the default max_retries of SculptorAgent, rate-limit
\* errors were retried after waits of 15, 30, 60 and 120 seconds, and the
\* rate-limit error of the fifth call was raised.
C17_Witness ==
    /\ agent = "sculptor"
    /\ retry.max_retries = SculptorMaxRetries
    /\ retry.status = "raised"
    /\ retry.last \in RateLimitErrors
    /\ retry.calls = SculptorMaxRetries
    /\ retry.waits = <<15, 30, 60, 120>>

\* C18: Result.error is populated only when the run halted on a critical
\* error (a failed step, or a model call that failed for good): the Result of
\* a run that ended by normal completion, by the iteration cap or by
\* cancellation carries no error.
C18_ErrorOnlyOnFailure ==
    run_status = "returned" /\ critical_error \notin {StepFailed, VisionFailed}
    => result.error = None

\* The image-goal orchestrator assesses a finished plan whose recent quality
\* is below the threshold.
FinishedBelowThreshold ==
    /\ agent = "sculptor"
    /\ node = "assess_progress"
    /\ node' # node
    /\ current_step >= Len(planning_steps)
    /\ quality_scores # <<>>
    /\ SeqSum(LastN(quality_scores, ScoreWindow))
         < SculptorCompleteScore * Min(ScoreWindow, Len(quality_scores))

\* C19: replanning_count never exceeds max_replanning_attempts (2); when all
\* planned steps are finished with recent quality below the threshold and
\* replanning_count = max_replanning_attempts, the run goes to COMPLETE with
\* is_complete = true and no error, and does not replan again; below the
\* maximum it replans and counts the replan.
C19_ReplanningBounded ==
    /\ [](replanning_count <= SculptorMaxReplanning)
    /\ [][FinishedBelowThreshold /\ replanning_count = SculptorMaxReplanning
            => /\ is_complete'
               /\ node' = "complete"
               /\ replanning_count' = replanning_count
               /\ critical_error' = critical_error]_vars
    /\ [][FinishedBelowThreshold /\ replanning_count < SculptorMaxReplanning
            => replanning_count' = replanning_count + 1]_vars
    /\ [](/\ agent = "sculptor"
          /\ run_status = "returned"
          /\ node = "END"
          /\ critical_error = None
          /\ result.kind = "returned"
          /\ ~result.recursion_limit_reached
          /\ result.error # "Cancelled by user"
          => result.success /\ result.error = None)

\* C19 witness: after two replans the plan is finished again with recent
\* quality below the threshold, and the run went to COMPLETE.
C19_Witness ==
    /\ agent = "sculptor"
    /\ node = "complete"
    /\ is_complete
    /\ critical_error = None
    /\ replanning_count = SculptorMaxReplanning
    /\ planning_steps # <<>>
    /\ quality_scores # <<>>
    /\ ~AverageReached(quality_scores)


C21_OneTaskPerSessionKey ==
    \A t, u \in 1..Len(artisan_tasks) :
        /\ t # u
        /\ artisan_tasks[t].runner = "run"
        /\ artisan_tasks[u].runner = "run"
        /\ artisan_tasks[t].use_resume
        /\ artisan_tasks[u].use_resume
        => artisan_tasks[t].session_id # artisan_tasks[u].session_id

\* C28: once the cancel handler has acknowledged a task that was
\* initializing or running, its status is cancelled in every later state.
C28_CancelledStaysCancelled ==
    \A t \in 1..Len(artisan_tasks) :
        artisan_tasks[t].cancelled => artisan_tasks[t].status = "cancelled"


\* C22: when ArtisanAgent executes a step in which every invocation that
\* fails is not critical (the step index is greater than 5, or the error
\* text matches no fatal pattern), each failing invocation is appended to
\* execution_errors, critical_error stays unset, every invocation the model
\* asked for is sent, and current_step advances by 1.
C22_NonCriticalErrorsAccumulate ==
    [][(/\ agent = "artisan"
        /\ ExecuteStepRuns
        /\ step_io'.requested >= 1
        /\ \E k \in 1..step_io'.sent : step_io'.errors[k]
        /\ \A k \in 1..step_io'.sent :
              step_io'.errors[k] =>
                  (current_step > CriticalStepCutoff \/ step_io'.fatal[k] = None))
       => /\ critical_error' = None
          /\ step_io'.sent = step_io'.requested
          /\ step_io'.logged = Cardinality({k \in 1..step_io'.sent : step_io'.errors[k]})
          /\ step_io'.logged >= 1
          /\ current_step' = current_step + 1]_vars

\* A late step (index 6) whose first invocation failed with a fatal pattern
\* and whose second invocation was still sent.
C22_Witness ==
    /\ agent = "artisan"
    /\ node = "capture_feedback"
    /\ critical_error = None
    /\ current_step = CriticalStepCutoff + 2
    /\ step_io.sent = 2
    /\ step_io.fatal[1] = "execute_blender_code"
    /\ step_io.logged >= 1


\* C23: a first error of the model whose message contains "overloaded",
\* "429" or "rate_limit" is not raised by invoke_with_retry, which still has
\* attempts left: it waits and calls the model again.
C23_OverloadedIsRetried ==
    [][(/\ ModelCalled
        /\ retry.calls = 0
        /\ retry.max_retries > 1
        /\ retry'.last \in {"overloaded", "429", "rate_limit"})
       => /\ retry'.status = "loop"
          /\ Len(retry'.waits) = 1]_vars


\* C24: when the reasoning-model call of a step fails for good, the failure
\* reaches the orchestrator: critical_error is set, so that the run ends
\* unsuccessful with an error, and run() does not raise.
C24_ModelFailureEndsRun ==
    [][(step_io'.llm_failed /\ step_io' # step_io)
       => /\ critical_error' # None
          /\ run_status' # "raised"]_vars


\* C25: whenever ArtisanAgent's execute_step is about to run,
\* refinement_attempts is 0.
C25_StepStartsWithFullBudget ==
    (agent = "artisan" /\ node = "execute_step" /\ run_status = "running")
        => refinement_attempts = 0


\* C26: when ArtisanAgent's run is started with resume disabled, planning
\* performs no completed-step detection: after planning completed_steps is
\* empty and current_step = 0, whatever the scene contains.
C26_NoResumeStartsFresh ==
    JustPlanned /\ ~use_deterministic_session
    => /\ step_io.llm = 1
       /\ completed_steps = <<>>
       /\ current_step = 0


\* A feedback capture of either orchestrator runs.
CaptureRuns == node = "capture_feedback" /\ node' # node

\* C27: once critical_error is set, no node of ArtisanAgent's graph issues a
\* tool call to the controlled application.
C27_NoToolCallAfterCriticalError ==
    [][(agent = "artisan" /\ critical_error # None /\ node' # node)
       => step_io'.rpc = 0]_vars

\* C29: each feedback capture appends exactly one record to tool_results.
C29_CaptureRecordsSnapshot ==
    [][CaptureRuns => step_io'.recorded = 1]_vars

\* C30: a feedback capture that writes a screenshot writes a file that no
\* earlier capture of the session wrote. The file names of SculptorAgent
\* follow current_step, which never decreases, so that the only earlier file
\* a capture can write again is the newest one.
C30_ScreenshotNeverOverwritten ==
    [][(CaptureRuns /\ step_io'.saved # NoShot)
       => step_io'.saved # last_screenshot]_vars


\* C31: in SculptorAgent every feedback capture whose screenshot tool call
\* succeeds writes the file, counts it and appends one quality_scores entry.
C31_CaptureScoresStep ==
    [][(agent = "sculptor" /\ CaptureRuns /\ step_io'.snap_ok)
       => /\ step_io'.saved # NoShot
          /\ step_io'.scored = 1]_vars

\* C32: every score recorded in quality_scores lies within the scale: 0..10
\* in ArtisanAgent, 0..100 in SculptorAgent, whatever number the text holds.
C32_ScoresWithinScale ==
    \A i \in 1..Len(quality_scores) :
        /\ quality_scores[i] >= 0
        /\ quality_scores[i] <= (IF agent = "artisan" THEN 10 ELSE 100)

\* C33: a result with success = true is returned only when every planned
\* step was executed (current_step = len(steps)), critical_error is unset
\* and the run was not cancelled.
C33_SuccessMeansAllStepsRan ==
    (run_status = "returned" /\ result.success)
        => /\ current_step = Len(planning_steps)
           /\ critical_error = None
           /\ result.error # "Cancelled by user"

\* The execute_step node of SculptorAgent runs right after a REPLAN: the node
\* before it was plan_steps (one reasoning call, no tool call) and
\* replanning_count has been raised.
ExecuteAfterReplan ==
    /\ agent = "sculptor"
    /\ node = "execute_step"
    /\ node' = "capture_feedback"
    /\ replanning_count > 0
    /\ step_io = SentIO(1, 0)

\* C34: after a REPLAN that gave a plan with at least one step, and without
\* cancellation or critical error, the execute_step node executes a step of
\* the new plan instead of declaring the run complete.
C34_ReplanIsExecuted ==
    [][(ExecuteAfterReplan /\ planning_steps # <<>> /\ ~cancel_requested
            /\ critical_error = None)
       => /\ current_step' = current_step + 1
          /\ ~is_complete']_vars

\* C35: the step description ArtisanAgent puts into the vision prompt of a
\* capture and into the REFINE prompt is that of the step just executed,
\* the one at index current_step - 1 once current_step has advanced.
C35_DescribesExecutedStep ==
    [][(/\ agent = "artisan"
        /\ node \in {"capture_feedback", "refine_step"}
        /\ node' # node
        /\ step_io'.described # NoDesc
        /\ critical_error = None
        /\ current_step >= 1 /\ current_step <= Len(planning_steps))
       => step_io'.described = planning_steps[current_step]]_vars

\* C36: every tool invocation the execute_step node of ArtisanAgent sent is
\* in tool_results when the node returns, also when the step ended in a
\* critical error.
C36_SentCallsAreRecorded ==
    [][(agent = "artisan" /\ node = "execute_step" /\ node' # node)
       => step_io'.recorded = step_io'.sent]_vars

\* C37: without an iteration cap, and with every external call returning,
\* every run reaches a terminal state: run() returns or raises.
C37_RunTerminates == <>(run_status # "running")

\* C37: replanning happens at most max_replanning_attempts times in a run.
C37_ReplansAreBounded == replans_taken <= SculptorMaxReplanning

\* The runner of task t has left _run_artisan_task.
RunEnded(t) == artisan_tasks[t].runner = "done"

\* C38: for every submitted task agent.cleanup() is eventually invoked, it
\* is invoked only when the task's run has ended, whatever the outcome, and
\* the connection of the task's agent is closed at most once.
C38_CleanupAlwaysRuns ==
    /\ \A t \in 1..MaxTasks :
          (Len(artisan_tasks) >= t)
              ~> (Len(artisan_tasks) >= t /\ artisan_tasks[t].cleanups >= 1)
    /\ [](\A t \in 1..Len(artisan_tasks) :
            /\ artisan_tasks[t].mcp.closes <= 1
            /\ artisan_tasks[t].cleanups <= 1
            /\ (artisan_tasks[t].cleanups = 1) = RunEnded(t)
            /\ RunEnded(t) => ~artisan_tasks[t].mcp.connected)

C38_Witness ==
    /\ Len(artisan_tasks) = 2
    /\ artisan_tasks[1].status = "cancelled"
    /\ artisan_tasks[1].mcp = [connected |-> FALSE, cleanup_done |-> TRUE, closes |-> 1]
    /\ artisan_tasks[1].cleanups = 1
    /\ artisan_tasks[2].status = "failed"
    /\ artisan_tasks[2].mcp.closes = 0
    /\ artisan_tasks[2].cleanups = 1

\* C39: whatever max_retries is, a call of invoke_with_retry that returns
\* has called the model at least once and returns the model's response.
C39_ReturnsAResponse ==
    retry.status = "returned" => /\ retry.calls >= 1
                                 /\ retry.last = "ok"

====
